---- MODULE Spec2Model ----
(***************************************************************************)
(* A model of the configuration-driven builders of fgvclib:                *)
(*   - build_optimizer       (fgvclib/apis/build.py)                       *)
(*   - build_model           (fgvclib/apis/build.py)                       *)
(*   - CUB_200_2011 dataset  (fgvclib/datasets/datasets.py)                *)
(*   - save_model            (fgvclib/apis/save_model.py)                  *)
(*   - vit_update_strategy   (fgvclib/utils/update_strategy/vit_updating.py)*)
(* Each operation has its own variables and its own specification; a       *)
(* specification leaves the variables of the other operations untouched.   *)
(***************************************************************************)
EXTENDS Integers, Sequences, FiniteSets, TLC

VARIABLES
    \* ---- build_optimizer
    optPc,          \* position in build_optimizer
    optModel,       \* the model argument: a module, or a wrapper around one
    optLR,          \* optim_cfg.LR
    m,              \* the unwrapped module (its named_parameters), or None
    optIdx,         \* index of the next (n, p) of m.named_parameters()
    params,         \* the parameter-group list being built
    optimizer,      \* the constructed optimizer, or None
    \* ---- CUB_200_2011
    fsEntries,      \* the names that exist directly under root
    fsArchiveGood,  \* whether root/CUB_200_2011.tgz, when present, is a readable tar
    fsSplit,        \* lines of train_test_split.txt, each split into its tokens
    fsImages,       \* lines of images.txt, each split into its tokens
    fsSubdirs,      \* os.listdir of the images directory
    fetches,        \* completed wget.download calls
    extracts,       \* completed extractall calls
    dlCalls,        \* download calls made directly (not by __init__)
    overwriteUsed,  \* whether some download call had overwrite = True
    dlLast,         \* the last download call: its argument, what it found and did
    dsPc,           \* position of the constructor: new, init, constructed, failed
    dsStep,         \* index of the constructor's next step
    dsMode,         \* __init__'s mode argument
    dsDownload,     \* __init__'s download argument
    category2index, index2category, samples,    \* the object's fields
    dsReads,        \* files read and directories listed so far
    dsTrace,        \* what the constructor has done, in order
    dsOp,           \* the last operation called
    dsResult,       \* what it returned
    \* ---- build_model
    bmCfg,          \* model_cfg
    bmPc,           \* building, done or failed
    bmStep,         \* index of build_model's next step
    bmItem,         \* index of the next item of model_cfg.CRITERIONS
    bmCalls,        \* registry lookups and constructor calls made, in order
    backbone, encoder, necks, heads, criterions,    \* build_model's locals
    model,          \* the model returned, or NoObject
    \* ---- save_model
    svCfg,          \* cfg.WEIGHT: [NAME, SAVE_DIR]
    svDirExists,    \* whether SAVE_DIR exists
    svDirAtStart,   \* whether SAVE_DIR existed before the first call
    svCheckpoint,   \* the file written by torch.save: <<path, state>>, or NoObject
    svState,        \* model.state_dict()
    svLog,          \* the messages given to the logger
    svClosed,       \* logger.close() was called
    svExited,       \* exit() was called
    svPc,           \* position in save_model
    svCalls,        \* calls of save_model so far
    svEvents,       \* what the current call has done, in order
    \* ---- vit_update_strategy
    upArgs,         \* the arguments use_cuda and amp
    upPc,           \* idle, running or returned
    upStep,         \* index of the call's next statement
    upDevice,       \* where inputs and targets are
    upLosses,       \* the loss terms the model's forward pass returned
    upTotal,        \* total_loss
    upGrad,         \* the gradient held by the parameter
    upWeight,       \* the parameter
    upTrace,        \* what the current call has done, in order
    upResult,       \* losses_info, the mapping returned
    upIters         \* calls so far

optVars == <<optPc, optModel, optLR, m, optIdx, params, optimizer>>

dsVars == <<fsEntries, fsArchiveGood, fsSplit, fsImages, fsSubdirs, fetches, extracts,
            dlCalls, overwriteUsed, dlLast, dsPc, dsStep, dsMode, dsDownload, category2index,
            index2category, samples, dsReads, dsTrace, dsOp, dsResult>>

bmVars == <<bmCfg, bmPc, bmStep, bmItem, bmCalls, backbone, encoder, necks, heads,
            criterions, model>>

svVars == <<svCfg, svDirExists, svDirAtStart, svCheckpoint, svState, svLog, svClosed,
            svExited, svPc, svCalls, svEvents>>

upVars == <<upArgs, upPc, upStep, upDevice, upLosses, upTotal, upGrad, upWeight,
            upTrace, upResult, upIters>>

vars == <<optVars, dsVars, bmVars, svVars, upVars>>

\* the variables an operation does not own
notOpt == <<dsVars, bmVars, svVars, upVars>>
notDs == <<optVars, bmVars, svVars, upVars>>
notBm == <<optVars, dsVars, svVars, upVars>>
notSv == <<optVars, dsVars, bmVars, upVars>>
notUp == <<optVars, dsVars, bmVars, svVars>>

None == "None"

(***************************************************************************)
(* Strings whose characters matter (parameter names, tags) are sequences   *)
(* of one-character strings, so that Python's substring test is computed   *)
(* and not assumed.                                                        *)
(***************************************************************************)
Dot == <<".">>
W_backbone == <<"b","a","c","k","b","o","n","e">>
W_encoder == <<"e","n","c","o","d","e","r">>
W_necks == <<"n","e","c","k","s">>
W_heads == <<"h","e","a","d","s">>
W_head == <<"h","e","a","d">>
W_bottlenecks == <<"b","o","t","t","l","e","n","e","c","k","s">>
W_conv1 == <<"c","o","n","v","1">>
W_fc == <<"f","c">>
W_weight == <<"w","e","i","g","h","t">>
W_module == <<"m","o","d","u","l","e">>

\* build.py line 149: model_attrs = ["backbone", "encoder", "necks", "heads"]
model_attrs == <<"backbone", "encoder", "necks", "heads">>

\* the characters of a tag of model_attrs
Chars(attr) ==
    CASE attr = "backbone" -> W_backbone
      [] attr = "encoder" -> W_encoder
      [] attr = "necks" -> W_necks
      [] attr = "heads" -> W_heads

\* str.__contains__: sub occurs in n as a contiguous run of characters
Contains(n, sub) ==
    \E i \in 1..(Len(n) - Len(sub) + 1) : SubSeq(n, i, i + Len(sub) - 1) = sub

\* qualified parameter names a model of the library can have
ParamNames ==
    { W_backbone \o Dot \o W_conv1 \o Dot \o W_weight,
      W_head \o Dot \o W_fc \o Dot \o W_weight,
      W_encoder \o Dot \o W_fc \o Dot \o W_weight,
      W_necks \o Dot \o W_conv1 \o Dot \o W_weight,
      W_heads \o Dot \o W_fc \o Dot \o W_weight,
      W_fc \o Dot \o W_weight,
      W_backbone \o Dot \o W_encoder \o Dot \o W_weight,
      W_encoder \o Dot \o W_bottlenecks \o Dot \o W_weight,
      W_backbone \o Dot \o W_necks \o Dot \o W_heads }

\* learning-rate configurations, in units of 1e-4
LRConfigs ==
    { [backbone |-> 100, encoder |-> 50, necks |-> 20, heads |-> 5, base |-> 10],
      [backbone |-> 100, encoder |-> 100, necks |-> 10, heads |-> 10, base |-> 10] }

MaxParams == 2

\* sequences of at most MaxParams named parameters with distinct names;
\* a parameter is identified by its position in the module
NamedParamLists ==
    UNION { { s \in [1..k -> [n : ParamNames, requires_grad : BOOLEAN]] :
                \A i, j \in 1..k : i # j => s[i].n # s[j].n } : k \in 0..MaxParams }

\* the models build_optimizer can be given: a module, or a module wrapped
\* for multi-device training
Models ==
    LET Modules == { [cls |-> "Module", own |-> s] : s \in NamedParamLists }
    IN Modules \cup { [cls |-> c, module |-> x] :
                        c \in {"DataParallel", "DistributedDataParallel"}, x \in Modules }

\* isinstance(model, nn.DataParallel) or isinstance(model, DistributedDataParallel)
IsWrapper(obj) == obj.cls \in {"DataParallel", "DistributedDataParallel"}

\* nn.Module.named_parameters(): (n, p) pairs; p carries its identity; a
\* wrapper lists the parameters of its module under the prefix "module."
named_parameters(obj) ==
    IF IsWrapper(obj)
    THEN [i \in DOMAIN obj.module.own |->
            [n |-> W_module \o Dot \o obj.module.own[i].n,
             p |-> [id |-> i, requires_grad |-> obj.module.own[i].requires_grad]]]
    ELSE [i \in DOMAIN obj.own |->
            [n |-> obj.own[i].n,
             p |-> [id |-> i, requires_grad |-> obj.own[i].requires_grad]]]

\* the inner loop of build_optimizer over model_attrs[from..], for one (n, p)
RECURSIVE TagGroupsFrom(_, _, _, _)
TagGroupsFrom(n, p, LR, from) ==
    IF from > Len(model_attrs) THEN <<>>
    ELSE (IF Contains(n, Chars(model_attrs[from]))
          THEN <<[params |-> p.id, lr |-> LR[model_attrs[from]]]>>
          ELSE <<>>) \o TagGroupsFrom(n, p, LR, from + 1)

\* a slip of the loop: stop at the first matching tag
TagGroupsFirstMatch(n, p, LR) ==
    LET all == TagGroupsFrom(n, p, LR, 1)
    IN IF all = <<>> THEN <<>> ELSE <<all[1]>>

TagGroups(n, p, LR) == TagGroupsFrom(n, p, LR, 1)

\* the body of the loop over named_parameters for one (n, p)
ParamGroups(n, p, LR) ==
    IF p.requires_grad
    THEN LET tagged == TagGroups(n, p, LR)
             is_other == (tagged = <<>>)
         IN IF is_other THEN <<[params |-> p.id, lr |-> LR["base"]]>> ELSE tagged
    ELSE <<>>

OptInit ==
    /\ optPc = "start"
    /\ optModel \in Models
    /\ optLR \in LRConfigs
    /\ m = None
    /\ optIdx = 1
    /\ params = <<>>
    /\ optimizer = None

\* lines 148-172: params = list(); unwrap DataParallel / DistributedDataParallel
Unwrap ==
    /\ optPc = "start"
    /\ m' = IF IsWrapper(optModel) THEN optModel.module ELSE optModel
    /\ params' = <<>>
    /\ optIdx' = 1
    /\ optPc' = "loop"
    /\ UNCHANGED <<optModel, optLR, optimizer>>
    /\ UNCHANGED notOpt

\* lines 173-188: one iteration of the loop over m.named_parameters()
LoopParam ==
    /\ optPc = "loop"
    /\ optIdx <= Len(named_parameters(m))
    /\ LET np == named_parameters(m)[optIdx]
       IN params' = params \o ParamGroups(np.n, np.p, optLR)
    /\ optIdx' = optIdx + 1
    /\ UNCHANGED <<optPc, optModel, optLR, m, optimizer>>
    /\ UNCHANGED notOpt

\* line 196: get_optimizer(optim_cfg.NAME)(params, optim_cfg.LR.base, args)
CallOptimizer ==
    /\ optPc = "loop"
    /\ optIdx > Len(named_parameters(m))
    /\ optimizer' = [param_groups |-> params, lr |-> optLR["base"]]
    /\ optPc' = "done"
    /\ UNCHANGED <<optModel, optLR, m, optIdx, params>>
    /\ UNCHANGED notOpt

OptNext == Unwrap \/ LoopParam \/ CallOptimizer

(***************************************************************************)
(* CUB_200_2011 (datasets.py)                                              *)
(***************************************************************************)
\* datasets.py lines 127, 130-132: the names download() tests and fetches to
DatasetDirName == <<"C","U","B","_","2","0","0","_","2","0","1","1">>
ArchiveName == DatasetDirName \o <<".","t","g","z">>

\* line 80: image_dir
image_dir == "CUB_200_2011/CUB_200_2011/images/"

\* str.endswith
EndsWith(s, suffix) ==
    /\ Len(s) >= Len(suffix)
    /\ SubSeq(s, Len(s) - Len(suffix) + 1, Len(s)) = suffix

\* str.split('.')[0]: the characters before the first '.'
RECURSIVE BeforeFirstDot(_)
BeforeFirstDot(s) ==
    IF s = <<>> \/ Head(s) = "." THEN <<>> ELSE <<Head(s)>> \o BeforeFirstDot(Tail(s))

\* a slip of _un_tgz: extract into a directory named after the whole file name
WholeBasename(package) == package

\* _un_tgz, line 72: the directory the archive is extracted into, under
\* op.dirname(package)
ExtractTarget(package) == BeforeFirstDot(package)

\* _extract_file, lines 51-59: which extractor handles the package; .tar and
\* .zip are passed over, .gz is written to the working directory
Extractor(package) ==
    IF EndsWith(package, <<".","g","z">>) THEN "un_gz"
    ELSE IF EndsWith(package, <<".","t","a","r">>) THEN "pass"
    ELSE IF EndsWith(package, <<".","z","i","p">>) THEN "pass"
    ELSE IF EndsWith(package, <<".","t","g","z">>) THEN "un_tgz"
    ELSE "none"

\* download(overwrite), lines 126-133, as the set of its outcomes from a file
\* system (entries, good): wget.download and tarfile.open may raise
DownloadOutcomes(entries, good, overwrite) ==
    IF DatasetDirName \in entries /\ ~overwrite
    THEN { [entries |-> entries, good |-> good, fetched |-> 0, extracted |-> 0,
            raised |-> FALSE] }
    ELSE LET needFetch == ArchiveName \notin entries
             \* the file system after line 131, when wget.download returns
             afterFetch == IF needFetch THEN entries \cup {ArchiveName} ELSE entries
             goodAfter == IF needFetch THEN TRUE ELSE good
             f == IF needFetch THEN 1 ELSE 0
             fetchFails ==
                IF needFetch
                THEN { [entries |-> entries, good |-> good, fetched |-> 0,
                        extracted |-> 0, raised |-> TRUE] }
                ELSE {}
             extraction ==
                IF Extractor(ArchiveName) = "un_tgz"
                THEN IF goodAfter
                     THEN { [entries |-> afterFetch \cup {ExtractTarget(ArchiveName)},
                             good |-> goodAfter, fetched |-> f, extracted |-> 1,
                             raised |-> FALSE] }
                     ELSE { [entries |-> afterFetch, good |-> goodAfter, fetched |-> f,
                             extracted |-> 0, raised |-> TRUE] }
                ELSE { [entries |-> afterFetch, good |-> goodAfter, fetched |-> f,
                        extracted |-> 0, raised |-> FALSE] }
         IN fetchFails \cup extraction

\* what a download call found and did, kept for the claims
CallRecord(entries, overwrite, o) ==
    [made |-> TRUE, overwrite |-> overwrite,
     dirBefore |-> DatasetDirName \in entries,
     archiveBefore |-> ArchiveName \in entries,
     fetched |-> o.fetched, extracted |-> o.extracted, raised |-> o.raised]

\* int(): the value of a sequence of decimal digits
RECURSIVE IntOf(_)
IntOf(digits) ==
    IF digits = <<>> THEN 0
    ELSE 10 * IntOf(SubSeq(digits, 1, Len(digits) - 1)) + digits[Len(digits)]

\* _load_categories, lines 115-124: a directory name "<index>.<category>" is
\* held as its two parts, name.split('.')
LoadCategories(sub_dirs) ==
    [c2i |-> [c \in { d[2] : d \in sub_dirs } |->
                IntOf((CHOOSE d \in sub_dirs : d[2] = c)[1]) - 1],
     i2c |-> [i \in { IntOf(d[1]) - 1 : d \in sub_dirs } |->
                (CHOOSE d \in sub_dirs : IntOf(d[1]) - 1 = i)[2]]]

\* op.join(root, image_dir, image_path) for a relative image_path
JoinPath(dir, path) == <<"root", dir, path>>

\* _load_samples, lines 95-113: both loops read split_file
LoadSamples(split, split_lines, second_lines) ==
    LET mode == IF split = "train" THEN "1" ELSE "0"
        image_ids == { split_lines[i][1] :
                        i \in { j \in DOMAIN split_lines : split_lines[j][2] = mode } }
        kept == SelectSeq(second_lines, LAMBDA line : line[1] \in image_ids)
    IN [i \in DOMAIN kept |-> JoinPath(image_dir, kept[i][2])]

\* lines 99 and 106: the file each of the two loops of _load_samples opens
SecondFileRead == "split_file"

\* __init__, lines 87-90: the steps of the constructor after its assertion
InitStepsSamplesFirst == <<"download", "load_samples", "load_categories">>

InitSteps == <<"download", "load_categories", "load_samples">>

MaxSamples == 3
MaxCategories == 2
MaxDownloadCalls == 2

Categories ==
    << <<<<0,0,1>>, "Black_footed_Albatross">>, <<<<0,0,2>>, "Laysan_Albatross">>,
       <<<<0,1,0>>, "Parakeet_Auklet">>, <<<<2,0,0>>, "Common_Yellowthroat">> >>

ImagePaths ==
    << "001.Black_footed_Albatross/Black_Footed_Albatross_0046_18.jpg",
       "001.Black_footed_Albatross/Black_Footed_Albatross_0009_34.jpg",
       "002.Laysan_Albatross/Laysan_Albatross_0002_1027.jpg",
       "010.Parakeet_Auklet/Parakeet_Auklet_0064_795954.jpg",
       "200.Common_Yellowthroat/Common_Yellowthroat_0003_190521.jpg" >>

\* no download call made yet
NoCall ==
    [made |-> FALSE, overwrite |-> FALSE, dirBefore |-> FALSE, archiveBefore |-> FALSE,
     fetched |-> 0, extracted |-> 0, raised |-> FALSE]

DsInit ==
    /\ fsEntries \in SUBSET {DatasetDirName, ArchiveName}
    /\ fsArchiveGood \in BOOLEAN
    /\ (ArchiveName \notin fsEntries => fsArchiveGood)
    /\ \E n \in 1..MaxSamples : \E flags \in [1..n -> {"0", "1"}] :
         /\ fsSplit = [i \in 1..n |-> <<i, flags[i]>>]
         /\ fsImages = [i \in 1..n |-> <<i, ImagePaths[((i - 1) % Len(ImagePaths)) + 1]>>]
    /\ \E k \in 1..MaxCategories :
         fsSubdirs = { Categories[((i - 1) % Len(Categories)) + 1] : i \in 1..k }
    /\ fetches = 0
    /\ extracts = 0
    /\ dlCalls = 0
    /\ overwriteUsed = FALSE
    /\ dlLast = NoCall
    /\ dsPc = "new"
    /\ dsStep = 1
    /\ dsMode \in {"train", "test", "val"}
    /\ dsDownload \in BOOLEAN
    /\ category2index = None
    /\ index2category = None
    /\ samples = None
    /\ dsReads = 0
    /\ dsTrace = <<>>
    /\ dsOp = None
    /\ dsResult = None

dsFs == <<fsEntries, fsArchiveGood, fsSplit, fsImages, fsSubdirs>>
dsObject == <<category2index, index2category, samples>>
dsArgs == <<dsMode, dsDownload>>

\* download(overwrite) called on the root outside the constructor
Download(overwrite) ==
    /\ dsPc \in {"new", "constructed", "failed"}
    /\ dlCalls < MaxDownloadCalls
    /\ \E o \in DownloadOutcomes(fsEntries, fsArchiveGood, overwrite) :
         /\ fsEntries' = o.entries
         /\ fsArchiveGood' = o.good
         /\ fetches' = fetches + o.fetched
         /\ extracts' = extracts + o.extracted
         /\ dlLast' = CallRecord(fsEntries, overwrite, o)
         /\ dsResult' = IF o.raised THEN "raised" ELSE None
    /\ dlCalls' = dlCalls + 1
    /\ overwriteUsed' = (overwriteUsed \/ overwrite)
    /\ dsOp' = "download"
    /\ UNCHANGED <<fsSplit, fsImages, fsSubdirs, dsPc, dsStep, dsArgs, dsObject,
                   dsReads, dsTrace>>
    /\ UNCHANGED notDs

\* line 85-86: assert mode in ["train", "test"]; self.root = root
InitBegin ==
    /\ dsPc = "new"
    /\ dsPc' = IF dsMode \in {"train", "test"} THEN "init" ELSE "failed"
    /\ dsOp' = "__init__"
    /\ dsResult' = None
    /\ UNCHANGED <<dsFs, fetches, extracts, dlCalls, overwriteUsed, dlLast, dsStep, dsArgs,
                   dsObject, dsReads, dsTrace>>
    /\ UNCHANGED notDs

\* lines 87-88: if download: self.download()
InitDownload ==
    /\ dsPc = "init"
    /\ dsStep <= Len(InitSteps)
    /\ InitSteps[dsStep] = "download"
    /\ IF dsDownload
       THEN \E o \in DownloadOutcomes(fsEntries, fsArchiveGood, FALSE) :
              /\ fsEntries' = o.entries
              /\ fsArchiveGood' = o.good
              /\ fetches' = fetches + o.fetched
              /\ extracts' = extracts + o.extracted
              /\ dsTrace' = dsTrace
                            \o (IF o.fetched = 1 THEN <<"fetch">> ELSE <<>>)
                            \o (IF o.extracted = 1 THEN <<"extract">> ELSE <<>>)
              /\ dlLast' = CallRecord(fsEntries, FALSE, o)
              /\ dsPc' = IF o.raised THEN "failed" ELSE "init"
       ELSE UNCHANGED <<fsEntries, fsArchiveGood, fetches, extracts, dsTrace, dlLast,
                        dsPc>>
    /\ dsStep' = dsStep + 1
    /\ UNCHANGED <<fsSplit, fsImages, fsSubdirs, dlCalls, overwriteUsed, dsArgs,
                   dsObject, dsReads, dsOp, dsResult>>
    /\ UNCHANGED notDs

\* line 89: self.category2index, self.index2category = self._load_categories();
\* os.listdir raises when the images directory is missing
InitLoadCategories ==
    /\ dsPc = "init"
    /\ dsStep <= Len(InitSteps)
    /\ InitSteps[dsStep] = "load_categories"
    /\ IF DatasetDirName \in fsEntries
       THEN /\ category2index' = LoadCategories(fsSubdirs).c2i
            /\ index2category' = LoadCategories(fsSubdirs).i2c
            /\ dsReads' = dsReads + 1
            /\ dsTrace' = Append(dsTrace, "load_categories")
            /\ dsPc' = "init"
       ELSE /\ dsPc' = "failed"
            /\ UNCHANGED <<category2index, index2category, dsReads, dsTrace>>
    /\ dsStep' = dsStep + 1
    /\ UNCHANGED <<dsFs, fetches, extracts, dlCalls, overwriteUsed, dlLast, dsArgs, samples,
                   dsOp, dsResult>>
    /\ UNCHANGED notDs

\* line 90: self.samples = self._load_samples(split=mode); open raises when
\* the manifest is missing
InitLoadSamples ==
    /\ dsPc = "init"
    /\ dsStep <= Len(InitSteps)
    /\ InitSteps[dsStep] = "load_samples"
    /\ IF DatasetDirName \in fsEntries
       THEN /\ samples' = LoadSamples(dsMode, fsSplit,
                                      IF SecondFileRead = "split_file" THEN fsSplit
                                                                       ELSE fsImages)
            /\ dsReads' = dsReads + 2
            /\ dsTrace' = Append(dsTrace, "load_samples")
            /\ dsPc' = "init"
       ELSE /\ dsPc' = "failed"
            /\ UNCHANGED <<samples, dsReads, dsTrace>>
    /\ dsStep' = dsStep + 1
    /\ UNCHANGED <<dsFs, fetches, extracts, dlCalls, overwriteUsed, dlLast, dsArgs,
                   category2index, index2category, dsOp, dsResult>>
    /\ UNCHANGED notDs

\* the constructor returns
InitReturn ==
    /\ dsPc = "init"
    /\ dsStep > Len(InitSteps)
    /\ dsPc' = "constructed"
    /\ UNCHANGED <<dsFs, fetches, extracts, dlCalls, overwriteUsed, dlLast, dsStep, dsArgs,
                   dsObject, dsReads, dsTrace, dsOp, dsResult>>
    /\ UNCHANGED notDs

dsFrame == <<dsFs, fetches, extracts, dlCalls, overwriteUsed, dlLast, dsPc, dsStep, dsArgs,
             dsObject, dsReads, dsTrace, notDs>>

\* __getitem__, lines 92-93
GetItem(index) ==
    /\ dsPc = "constructed"
    /\ index \in 0..(Len(samples) - 1)
    /\ dsOp' = "__getitem__"
    /\ dsResult' = samples[index + 1]
    /\ UNCHANGED dsFrame

\* __len__, lines 25-26
LenOp ==
    /\ dsPc = "constructed"
    /\ dsOp' = "__len__"
    /\ dsResult' = Len(samples)
    /\ UNCHANGED dsFrame

\* encode_category, lines 42-43
EncodeCategory(category) ==
    /\ dsPc = "constructed"
    /\ category \in DOMAIN category2index
    /\ dsOp' = "encode_category"
    /\ dsResult' = category2index[category]
    /\ UNCHANGED dsFrame

\* decode_category, lines 45-46
DecodeCategory(index) ==
    /\ dsPc = "constructed"
    /\ index \in DOMAIN index2category
    /\ dsOp' = "decode_category"
    /\ dsResult' = index2category[index]
    /\ UNCHANGED dsFrame

\* get_categories, lines 48-49
GetCategories ==
    /\ dsPc = "constructed"
    /\ dsOp' = "get_categories"
    /\ dsResult' = DOMAIN category2index
    /\ UNCHANGED dsFrame

DsNext ==
    \/ \E overwrite \in BOOLEAN : Download(overwrite)
    \/ InitBegin
    \/ InitDownload
    \/ InitLoadCategories
    \/ InitLoadSamples
    \/ InitReturn
    \/ \E index \in 0..(MaxSamples - 1) : GetItem(index)
    \/ LenOp
    \/ \E c \in { Categories[k][2] : k \in DOMAIN Categories } : EncodeCategory(c)
    \/ \E i \in { IntOf(Categories[k][1]) - 1 : k \in DOMAIN Categories } :
            DecodeCategory(i)
    \/ GetCategories

(***************************************************************************)
(* build_model (build.py lines 38-72)                                      *)
(***************************************************************************)
\* Python's None where an object is expected
NoObject == <<>>

\* the names each registry holds (fgvclib's registries are outside the
\* sources at hand; the names are examples of the library's components)
Registered(category) ==
    CASE category = "backbone" -> {"resnet50"}
      [] category = "encoder" -> {"global_avg_pooling"}
      [] category = "neck" -> {"multi_scale_conv"}
      [] category = "head" -> {"classifier_1fc"}
      [] category = "criterion" -> {"cross_entropy_loss", "mutual_channel_loss"}
      [] category = "model" -> {"MCL"}

\* get_backbone, get_encoder, ...: the constructor registered under name,
\* or a lookup error
RegistryGet(category, name) ==
    IF name \in Registered(category) THEN <<"constructor", category, name>> ELSE "raise"

\* what a registered constructor builds
Construct(builder) == <<"object", builder[2], builder[3]>>

\* a slip of the test: only None disables the component
IsNotNone(name) == name # None

\* `if model_cfg.ENCODER.NAME:` -- Python truthiness of a name
Truthy(name) == name \notin {"", None}

\* a slip of the order: the head is built after the criterions
BuildStepsHeadLate == <<"backbone", "encoder", "necks", "criterions", "heads", "model">>

\* lines 47-70: the steps of build_model, in order
BuildSteps == <<"backbone", "encoder", "necks", "heads", "criterions", "model">>

MaxCriterions == 2

CriterionLists ==
    UNION { [1..k -> [name : {"cross_entropy_loss", "mutual_channel_loss", "unknown"},
                      w : {1}]] : k \in 0..MaxCriterions }

BmInit ==
    /\ bmCfg \in [BACKBONE : {"resnet50", "unknown", ""},
                  ENCODER : {"", None, "global_avg_pooling", "unknown"},
                  NECKS : {"", None, "multi_scale_conv", "unknown"},
                  HEADS : {"classifier_1fc", "unknown"},
                  CRITERIONS : CriterionLists,
                  NAME : {"MCL", "unknown"}]
    /\ bmPc = "building"
    /\ bmStep = 1
    /\ bmItem = 1
    /\ bmCalls = <<>>
    /\ backbone = NoObject
    /\ encoder = NoObject
    /\ necks = NoObject
    /\ heads = NoObject
    /\ criterions = <<>>
    /\ model = NoObject

AtStep(step) ==
    /\ bmPc = "building"
    /\ bmStep <= Len(BuildSteps)
    /\ BuildSteps[bmStep] = step

\* the calls a required component makes: the lookup, then the constructor
LookupAndBuild(category, name) ==
    IF RegistryGet(category, name) = "raise"
    THEN <<<<"lookup", category, name>>>>
    ELSE <<<<"lookup", category, name>>, <<"construct", category, name>>>>

Built(category, name) == Construct(RegistryGet(category, name))

\* lines 47-48
BuildBackbone ==
    /\ AtStep("backbone")
    /\ bmCalls' = bmCalls \o LookupAndBuild("backbone", bmCfg.BACKBONE)
    /\ IF RegistryGet("backbone", bmCfg.BACKBONE) = "raise"
       THEN bmPc' = "failed" /\ UNCHANGED backbone
       ELSE bmPc' = bmPc /\ backbone' = Built("backbone", bmCfg.BACKBONE)
    /\ bmStep' = bmStep + 1
    /\ UNCHANGED <<bmCfg, bmItem, encoder, necks, heads, criterions, model>>
    /\ UNCHANGED notBm

\* lines 50-54
BuildEncoder ==
    /\ AtStep("encoder")
    /\ IF Truthy(bmCfg.ENCODER)
       THEN /\ bmCalls' = bmCalls \o LookupAndBuild("encoder", bmCfg.ENCODER)
            /\ IF RegistryGet("encoder", bmCfg.ENCODER) = "raise"
               THEN bmPc' = "failed" /\ UNCHANGED encoder
               ELSE bmPc' = bmPc /\ encoder' = Built("encoder", bmCfg.ENCODER)
       ELSE /\ encoder' = NoObject
            /\ UNCHANGED <<bmCalls, bmPc>>
    /\ bmStep' = bmStep + 1
    /\ UNCHANGED <<bmCfg, bmItem, backbone, necks, heads, criterions, model>>
    /\ UNCHANGED notBm

\* lines 56-60
BuildNecks ==
    /\ AtStep("necks")
    /\ IF Truthy(bmCfg.NECKS)
       THEN /\ bmCalls' = bmCalls \o LookupAndBuild("neck", bmCfg.NECKS)
            /\ IF RegistryGet("neck", bmCfg.NECKS) = "raise"
               THEN bmPc' = "failed" /\ UNCHANGED necks
               ELSE bmPc' = bmPc /\ necks' = Built("neck", bmCfg.NECKS)
       ELSE /\ necks' = NoObject
            /\ UNCHANGED <<bmCalls, bmPc>>
    /\ bmStep' = bmStep + 1
    /\ UNCHANGED <<bmCfg, bmItem, backbone, encoder, heads, criterions, model>>
    /\ UNCHANGED notBm

\* lines 62-63
BuildHeads ==
    /\ AtStep("heads")
    /\ bmCalls' = bmCalls \o LookupAndBuild("head", bmCfg.HEADS)
    /\ IF RegistryGet("head", bmCfg.HEADS) = "raise"
       THEN bmPc' = "failed" /\ UNCHANGED heads
       ELSE bmPc' = bmPc /\ heads' = Built("head", bmCfg.HEADS)
    /\ bmStep' = bmStep + 1
    /\ UNCHANGED <<bmCfg, bmItem, backbone, encoder, necks, criterions, model>>
    /\ UNCHANGED notBm

\* dict.update({name: value})
DictUpdate(d, name, value) ==
    [k \in DOMAIN d \cup {name} |-> IF k = name THEN value ELSE d[k]]

\* lines 65-67 and build_criterion, lines 209-211: one item of CRITERIONS
BuildCriterion ==
    /\ AtStep("criterions")
    /\ bmItem <= Len(bmCfg.CRITERIONS)
    /\ LET item == bmCfg.CRITERIONS[bmItem]
       IN /\ bmCalls' = bmCalls \o LookupAndBuild("criterion", item.name)
          /\ IF RegistryGet("criterion", item.name) = "raise"
             THEN bmPc' = "failed" /\ UNCHANGED criterions
             ELSE /\ bmPc' = bmPc
                  /\ criterions' = DictUpdate(criterions, item.name,
                                      [fn |-> Built("criterion", item.name), w |-> item.w])
    /\ bmItem' = bmItem + 1
    /\ UNCHANGED <<bmCfg, bmStep, backbone, encoder, necks, heads, model>>
    /\ UNCHANGED notBm

\* line 66: the loop over CRITERIONS ends
CriterionsDone ==
    /\ AtStep("criterions")
    /\ bmItem > Len(bmCfg.CRITERIONS)
    /\ bmStep' = bmStep + 1
    /\ UNCHANGED <<bmCfg, bmPc, bmItem, bmCalls, backbone, encoder, necks, heads,
                   criterions, model>>
    /\ UNCHANGED notBm

\* lines 69-72
BuildTopModel ==
    /\ AtStep("model")
    /\ bmCalls' = bmCalls \o LookupAndBuild("model", bmCfg.NAME)
    /\ IF RegistryGet("model", bmCfg.NAME) = "raise"
       THEN bmPc' = "failed" /\ UNCHANGED model
       ELSE /\ bmPc' = "done"
            /\ model' = [built |-> Built("model", bmCfg.NAME), backbone |-> backbone,
                         encoder |-> encoder, necks |-> necks, heads |-> heads,
                         criterions |-> criterions]
    /\ bmStep' = bmStep + 1
    /\ UNCHANGED <<bmCfg, bmItem, backbone, encoder, necks, heads, criterions>>
    /\ UNCHANGED notBm

BmNext ==
    \/ BuildBackbone
    \/ BuildEncoder
    \/ BuildNecks
    \/ BuildHeads
    \/ BuildCriterion
    \/ CriterionsDone
    \/ BuildTopModel

(***************************************************************************)
(* save_model (save_model.py lines 5-17)                                   *)
(***************************************************************************)
MaxSaves == 2
MaxEpochs == 2

\* a slip of the test: the checkpoint is saved whatever the name
SaveAlways(name) == TRUE

\* line 6: `if cfg.WEIGHT.NAME:`
SaveEnabled(name) == Truthy(name)

\* a slip of the handler: the error is logged and execution continues
AfterStepSwallowed(pc) ==
    CASE pc = "log_fail" -> "save"
      [] pc = "close" -> "exit"
      [] pc = "exit" -> "exited"
      [] pc = "save" -> "log_save"
      [] pc = "log_save" -> "idle"

\* lines 11-17: the statement that follows each statement
AfterStep(pc) ==
    CASE pc = "log_fail" -> "close"
      [] pc = "close" -> "exit"
      [] pc = "exit" -> "exited"
      [] pc = "save" -> "log_save"
      [] pc = "log_save" -> "idle"

\* os.path.join(cfg.WEIGHT.SAVE_DIR, cfg.WEIGHT.NAME)
SavePath(cfg) == <<cfg.SAVE_DIR, cfg.NAME>>

SvInit ==
    /\ svCfg \in [NAME : {"", None, "final.pth", "best.pth"}, SAVE_DIR : {"checkpoints"}]
    /\ svDirExists \in BOOLEAN
    /\ svDirAtStart = svDirExists
    /\ svCheckpoint = NoObject
    /\ svState \in 0..1
    /\ svLog = <<>>
    /\ svClosed = FALSE
    /\ svExited = FALSE
    /\ svPc = "idle"
    /\ svCalls = 0
    /\ svEvents = <<>>

\* the caller trains between two saves: the parameters change
SvTrain ==
    /\ svPc = "idle"
    /\ svState < MaxEpochs
    /\ svState' = svState + 1
    /\ UNCHANGED <<svCfg, svDirExists, svDirAtStart, svCheckpoint, svLog, svClosed,
                   svExited, svPc, svCalls, svEvents>>
    /\ UNCHANGED notSv

\* lines 5-8: save_model is called; the tests on NAME and on SAVE_DIR
SvCall ==
    /\ svPc = "idle"
    /\ svCalls < MaxSaves
    /\ svCalls' = svCalls + 1
    /\ svEvents' = <<>>
    /\ svPc' = IF SaveEnabled(svCfg.NAME)
               THEN (IF ~svDirExists THEN "mkdir" ELSE "save")
               ELSE "idle"
    /\ UNCHANGED <<svCfg, svDirExists, svDirAtStart, svCheckpoint, svState, svLog,
                   svClosed, svExited>>
    /\ UNCHANGED notSv

\* lines 9-11: os.mkdir(cfg.WEIGHT.SAVE_DIR), which may raise
SvMkdir ==
    /\ svPc = "mkdir"
    /\ \E created \in BOOLEAN :
         /\ svDirExists' = created
         /\ svEvents' = Append(svEvents, IF created THEN "mkdir" ELSE "mkdir_failed")
         /\ svPc' = IF created THEN "save" ELSE "log_fail"
    /\ UNCHANGED <<svCfg, svDirAtStart, svCheckpoint, svState, svLog, svClosed, svExited,
                   svCalls>>
    /\ UNCHANGED notSv

\* line 12: logger(f'Cannot create save dir under {cfg.WEIGHT.SAVE_DIR}')
SvLogFail ==
    /\ svPc = "log_fail"
    /\ svLog' = Append(svLog, <<"Cannot create save dir under", svCfg.SAVE_DIR>>)
    /\ svEvents' = Append(svEvents, "log_fail")
    /\ svPc' = AfterStep(svPc)
    /\ UNCHANGED <<svCfg, svDirExists, svDirAtStart, svCheckpoint, svState, svClosed,
                   svExited, svCalls>>
    /\ UNCHANGED notSv

\* line 13: logger.close()
SvClose ==
    /\ svPc = "close"
    /\ svClosed' = TRUE
    /\ svEvents' = Append(svEvents, "close")
    /\ svPc' = AfterStep(svPc)
    /\ UNCHANGED <<svCfg, svDirExists, svDirAtStart, svCheckpoint, svState, svLog,
                   svExited, svCalls>>
    /\ UNCHANGED notSv

\* line 14: exit()
SvExit ==
    /\ svPc = "exit"
    /\ svExited' = TRUE
    /\ svEvents' = Append(svEvents, "exit")
    /\ svPc' = AfterStep(svPc)
    /\ UNCHANGED <<svCfg, svDirExists, svDirAtStart, svCheckpoint, svState, svLog,
                   svClosed, svCalls>>
    /\ UNCHANGED notSv

\* lines 15-16: torch.save(model.state_dict(), save_path)
SvSave ==
    /\ svPc = "save"
    /\ svCheckpoint' = <<SavePath(svCfg), svState>>
    /\ svEvents' = Append(svEvents, "save")
    /\ svPc' = AfterStep(svPc)
    /\ UNCHANGED <<svCfg, svDirExists, svDirAtStart, svState, svLog, svClosed, svExited,
                   svCalls>>
    /\ UNCHANGED notSv

\* line 17: logger(f'Saving checkpoint to {save_path}')
SvLogSave ==
    /\ svPc = "log_save"
    /\ svLog' = Append(svLog, <<"Saving checkpoint to", SavePath(svCfg)>>)
    /\ svEvents' = Append(svEvents, "log_save")
    /\ svPc' = AfterStep(svPc)
    /\ UNCHANGED <<svCfg, svDirExists, svDirAtStart, svCheckpoint, svState, svClosed,
                   svExited, svCalls>>
    /\ UNCHANGED notSv

SvNext ==
    \/ SvTrain
    \/ SvCall
    \/ SvMkdir
    \/ SvLogFail
    \/ SvClose
    \/ SvExit
    \/ SvSave
    \/ SvLogSave

(***************************************************************************)
(* vit_update_strategy (vit_updating.py lines 10-31)                       *)
(***************************************************************************)
MaxIters == 2
MaxLoss == 2

\* lines 22 and 25: max_norm of clip_grad_norm_
MaxNorm == 1

\* a slip of the order: gradients are zeroed before the optimizer steps
UpdateStepsZeroFirst(amp) ==
    <<"to_cuda", "forward", "aggregate", "mean",
      IF amp THEN "backward_scaled" ELSE "backward", "clip",
      "zero_grad", "step", "detach", "update_info", "return">>

\* lines 12-31: the statements of vit_update_strategy, in order
UpdateSteps(amp) ==
    <<"to_cuda", "forward", "aggregate", "mean",
      IF amp THEN "backward_scaled" ELSE "backward", "clip",
      "step", "zero_grad", "detach", "update_info", "return">>

\* the loss terms a forward pass can return: name, value, weight
LossItems ==
    { items \in [1..2 -> [name : {"cross_entropy_loss", "mutual_channel_loss"},
                          value : 0..MaxLoss, weight : {1}]] :
        items[1].name = "cross_entropy_loss" /\ items[2].name = "mutual_channel_loss" }
    \cup { items \in [1..1 -> [name : {"cross_entropy_loss"}, value : 0..MaxLoss,
                               weight : {1}]] : TRUE }

\* fgvclib.criterions.compute_loss_value: the weighted sum of the terms
RECURSIVE compute_loss_value(_)
compute_loss_value(items) ==
    IF items = <<>> THEN 0
    ELSE items[1].weight * items[1].value + compute_loss_value(Tail(items))

\* fgvclib.criterions.detach_loss_value: term name -> scalar value
detach_loss_value(items) ==
    [n \in { items[i].name : i \in DOMAIN items } |->
        (CHOOSE i \in DOMAIN items : items[i].name = n /\
            \A j \in DOMAIN items : items[j].name = n => j <= i)]

\* torch.nn.utils.clip_grad_norm_(parameters, max_norm) on one gradient
ClipGradNorm(g, max_norm) ==
    IF g > max_norm THEN max_norm ELSE IF g < -max_norm THEN -max_norm ELSE g

UpInit ==
    /\ upArgs \in [use_cuda : BOOLEAN, amp : BOOLEAN]
    /\ upPc = "idle"
    /\ upStep = 1
    /\ upDevice = "cpu"
    /\ upLosses = <<>>
    /\ upTotal = 0
    /\ upGrad \in 0..1
    /\ upWeight = 0
    /\ upTrace = <<>>
    /\ upResult = <<>>
    /\ upIters = 0

UpAt(stmt) ==
    /\ upPc = "running"
    /\ upStep <= Len(UpdateSteps(upArgs.amp))
    /\ UpdateSteps(upArgs.amp)[upStep] = stmt

\* line 10: the training loop calls vit_update_strategy
UpCall ==
    /\ upPc \in {"idle", "returned"}
    /\ upIters < MaxIters
    /\ upIters' = upIters + 1
    /\ upPc' = "running"
    /\ upStep' = 1
    /\ upDevice' = "cpu"
    /\ upTrace' = <<>>
    /\ upResult' = <<>>
    /\ upLosses' = <<>>
    /\ upTotal' = 0
    /\ UNCHANGED <<upArgs, upGrad, upWeight>>
    /\ UNCHANGED notUp

\* lines 12-14
UpToCuda ==
    /\ UpAt("to_cuda")
    /\ upDevice' = IF upArgs.use_cuda THEN "cuda" ELSE upDevice
    /\ upStep' = upStep + 1
    /\ UNCHANGED <<upArgs, upPc, upLosses, upTotal, upGrad, upWeight, upTrace, upResult,
                   upIters>>
    /\ UNCHANGED notUp

\* line 15: out, losses = model(inputs, targets)
UpForward ==
    /\ UpAt("forward")
    /\ upLosses' \in LossItems
    /\ upTrace' = Append(upTrace, "forward")
    /\ upStep' = upStep + 1
    /\ UNCHANGED <<upArgs, upPc, upDevice, upTotal, upGrad, upWeight, upResult, upIters>>
    /\ UNCHANGED notUp

\* line 16: total_loss = compute_loss_value(losses)
UpAggregate ==
    /\ UpAt("aggregate")
    /\ upTotal' = compute_loss_value(upLosses)
    /\ upTrace' = Append(upTrace, "aggregate")
    /\ upStep' = upStep + 1
    /\ UNCHANGED <<upArgs, upPc, upDevice, upLosses, upGrad, upWeight, upResult, upIters>>
    /\ UNCHANGED notUp

\* line 17: total_loss = total_loss.mean(), of a scalar
UpMean ==
    /\ UpAt("mean")
    /\ upTotal' = upTotal
    /\ upStep' = upStep + 1
    /\ UNCHANGED <<upArgs, upPc, upDevice, upLosses, upGrad, upWeight, upTrace, upResult,
                   upIters>>
    /\ UNCHANGED notUp

\* lines 18-20 (amp): scaled_loss.backward() inside ap.scale_loss, which
\* unscales the gradients when it exits
UpBackwardScaled ==
    /\ UpAt("backward_scaled")
    /\ upGrad' = upGrad + upTotal
    /\ upTrace' = Append(upTrace, "backward_scaled")
    /\ upStep' = upStep + 1
    /\ UNCHANGED <<upArgs, upPc, upDevice, upLosses, upTotal, upWeight, upResult, upIters>>
    /\ UNCHANGED notUp

\* line 23: total_loss.backward(), which adds to the gradients
UpBackward ==
    /\ UpAt("backward")
    /\ upGrad' = upGrad + upTotal
    /\ upTrace' = Append(upTrace, "backward")
    /\ upStep' = upStep + 1
    /\ UNCHANGED <<upArgs, upPc, upDevice, upLosses, upTotal, upWeight, upResult, upIters>>
    /\ UNCHANGED notUp

\* lines 21 and 24: clip_grad_norm_(..., 1.0)
UpClip ==
    /\ UpAt("clip")
    /\ upGrad' = ClipGradNorm(upGrad, MaxNorm)
    /\ upTrace' = Append(upTrace, "clip")
    /\ upStep' = upStep + 1
    /\ UNCHANGED <<upArgs, upPc, upDevice, upLosses, upTotal, upWeight, upResult, upIters>>
    /\ UNCHANGED notUp

\* line 26: optimizer.step()
UpOptimizerStep ==
    /\ UpAt("step")
    /\ upWeight' = upWeight - upGrad
    /\ upTrace' = Append(upTrace, "step")
    /\ upStep' = upStep + 1
    /\ UNCHANGED <<upArgs, upPc, upDevice, upLosses, upTotal, upGrad, upResult, upIters>>
    /\ UNCHANGED notUp

\* line 27: optimizer.zero_grad()
UpZeroGrad ==
    /\ UpAt("zero_grad")
    /\ upGrad' = 0
    /\ upTrace' = Append(upTrace, "zero_grad")
    /\ upStep' = upStep + 1
    /\ UNCHANGED <<upArgs, upPc, upDevice, upLosses, upTotal, upWeight, upResult, upIters>>
    /\ UNCHANGED notUp

\* line 28: losses_info = detach_loss_value(losses)
UpDetach ==
    /\ UpAt("detach")
    /\ upResult' = [n \in DOMAIN detach_loss_value(upLosses) |->
                        upLosses[detach_loss_value(upLosses)[n]].value]
    /\ upStep' = upStep + 1
    /\ UNCHANGED <<upArgs, upPc, upDevice, upLosses, upTotal, upGrad, upWeight, upTrace,
                   upIters>>
    /\ UNCHANGED notUp

\* line 29: losses_info.update({"iter_loss": total_loss.item()})
UpUpdateInfo ==
    /\ UpAt("update_info")
    /\ upResult' = DictUpdate(upResult, "iter_loss", upTotal)
    /\ upStep' = upStep + 1
    /\ UNCHANGED <<upArgs, upPc, upDevice, upLosses, upTotal, upGrad, upWeight, upTrace,
                   upIters>>
    /\ UNCHANGED notUp

\* line 31: return losses_info
UpReturn ==
    /\ UpAt("return")
    /\ upPc' = "returned"
    /\ upStep' = upStep + 1
    /\ UNCHANGED <<upArgs, upDevice, upLosses, upTotal, upGrad, upWeight, upTrace,
                   upResult, upIters>>
    /\ UNCHANGED notUp

UpNext ==
    \/ UpCall
    \/ UpToCuda
    \/ UpForward
    \/ UpAggregate
    \/ UpMean
    \/ UpBackwardScaled
    \/ UpBackward
    \/ UpClip
    \/ UpOptimizerStep
    \/ UpZeroGrad
    \/ UpDetach
    \/ UpUpdateInfo
    \/ UpReturn

(***************************************************************************)
(* Specifications: one per operation; the other operations' variables     *)
(* keep their initial values.                                              *)
(***************************************************************************)
OptIdle ==
    /\ optPc = "start" /\ optModel = [cls |-> "Module", own |-> <<>>]
    /\ optLR = [backbone |-> 0, encoder |-> 0, necks |-> 0, heads |-> 0, base |-> 0]
    /\ m = None /\ optIdx = 1 /\ params = <<>> /\ optimizer = None

DsIdle ==
    /\ fsEntries = {} /\ fsArchiveGood = TRUE /\ fsSplit = <<>> /\ fsImages = <<>>
    /\ fsSubdirs = {} /\ fetches = 0 /\ extracts = 0 /\ dlCalls = 0
    /\ overwriteUsed = FALSE /\ dlLast = NoCall /\ dsPc = "new" /\ dsStep = 1
    /\ dsMode = "train"
    /\ dsDownload = FALSE /\ category2index = None /\ index2category = None
    /\ samples = None /\ dsReads = 0 /\ dsTrace = <<>> /\ dsOp = None /\ dsResult = None

BmIdle ==
    /\ bmCfg = [BACKBONE |-> "", ENCODER |-> "", NECKS |-> "", HEADS |-> "",
                CRITERIONS |-> <<>>, NAME |-> ""]
    /\ bmPc = "building" /\ bmStep = 1 /\ bmItem = 1 /\ bmCalls = <<>>
    /\ backbone = NoObject /\ encoder = NoObject /\ necks = NoObject
    /\ heads = NoObject /\ criterions = <<>> /\ model = NoObject

SvIdle ==
    /\ svCfg = [NAME |-> "", SAVE_DIR |-> ""] /\ svDirExists = FALSE
    /\ svDirAtStart = FALSE /\ svCheckpoint = NoObject /\ svState = 0 /\ svLog = <<>>
    /\ svClosed = FALSE /\ svExited = FALSE /\ svPc = "idle" /\ svCalls = 0
    /\ svEvents = <<>>

UpIdle ==
    /\ upArgs = [use_cuda |-> FALSE, amp |-> FALSE] /\ upPc = "idle" /\ upStep = 1
    /\ upDevice = "cpu" /\ upLosses = <<>> /\ upTotal = 0 /\ upGrad = 0
    /\ upWeight = 0 /\ upTrace = <<>> /\ upResult = <<>> /\ upIters = 0

InitOptimizer == OptInit /\ DsIdle /\ BmIdle /\ SvIdle /\ UpIdle
SpecOptimizer == InitOptimizer /\ [][OptNext]_vars

InitDataset == DsInit /\ OptIdle /\ BmIdle /\ SvIdle /\ UpIdle
SpecDataset == InitDataset /\ [][DsNext]_vars

InitBuildModel == BmInit /\ OptIdle /\ DsIdle /\ SvIdle /\ UpIdle
SpecBuildModel == InitBuildModel /\ [][BmNext]_vars

InitSaveModel == SvInit /\ OptIdle /\ DsIdle /\ BmIdle /\ UpIdle
SpecSaveModel == InitSaveModel /\ [][SvNext]_vars

InitUpdate == UpInit /\ OptIdle /\ DsIdle /\ BmIdle /\ SvIdle
SpecUpdate == InitUpdate /\ [][UpNext]_vars

(***************************************************************************)
(* Claims about build_optimizer                                            *)
(***************************************************************************)
\* the module whose parameters the optimizer is built for
Inner(obj) == IF IsWrapper(obj) THEN obj.module ELSE obj

\* the positions in model_attrs of the tags that occur in name n
MatchingTags(n) == { a \in DOMAIN model_attrs : Contains(n, Chars(model_attrs[a])) }

TrainableParams(obj) ==
    SelectSeq(named_parameters(Inner(obj)), LAMBDA x : x.p.requires_grad)

\* the rate of the first tag of model_attrs that n contains, else the base rate
FirstTagRate(n, LR) ==
    IF MatchingTags(n) = {} THEN LR["base"]
    ELSE LR[model_attrs[CHOOSE a \in MatchingTags(n) : \A b \in MatchingTags(n) : a <= b]]

\* C1: the group list handed to the optimizer holds exactly one group per
\* trainable parameter, in order, with the rate of the first tag its name
\* contains (the base rate when it contains none); untrainable parameters
\* are in no group.
C1_OneGroupPerParam ==
    optPc = "done" =>
        LET T == TrainableParams(optModel)
            G == optimizer.param_groups
        IN /\ Len(G) = Len(T)
           /\ \A i \in DOMAIN G :
                G[i] = [params |-> T[i].p.id, lr |-> FirstTagRate(T[i].n, optLR)]

\* C2: a trainable parameter whose name contains k >= 2 tags is in the
\* group list k times, once per matching tag with that tag's rate, and is
\* not given an extra base-rate group.
C2_MultiTagRepeated ==
    optPc = "done" =>
        \A x \in { TrainableParams(optModel)[i] : i \in DOMAIN TrainableParams(optModel) } :
            Cardinality(MatchingTags(x.n)) >= 2 =>
                LET G == optimizer.param_groups
                    Mine == { i \in DOMAIN G : G[i].params = x.p.id }
                IN /\ Cardinality(Mine) = Cardinality(MatchingTags(x.n))
                   /\ \A a \in MatchingTags(x.n) :
                        Cardinality({ i \in Mine : G[i].lr = optLR[model_attrs[a]] })
                          = Cardinality({ b \in MatchingTags(x.n) :
                                            optLR[model_attrs[b]] = optLR[model_attrs[a]] })

\* a built optimizer that holds one parameter in two groups, with the rates
\* of two different tags
C2_Witness ==
    /\ optPc = "done"
    /\ \E i, j \in DOMAIN optimizer.param_groups :
          /\ i < j
          /\ optimizer.param_groups[i].params = optimizer.param_groups[j].params
          /\ optimizer.param_groups[i].lr # optimizer.param_groups[j].lr


(***************************************************************************)
(* Claims about CUB_200_2011                                               *)
(***************************************************************************)
\* the relative image path images.txt gives for a sample identifier
ImagePathOf(id) == (CHOOSE i \in DOMAIN fsImages : fsImages[i][1] = id)

\* C3: the sample list of a constructed dataset holds, in manifest order,
\* one entry per identifier whose split flag is "1" for mode train ("0" for
\* test), and the entry is root/image_dir joined with the path images.txt
\* gives for that identifier.
C3_SamplesFromImageList ==
    dsPc = "constructed" =>
        LET flag == IF dsMode = "train" THEN "1" ELSE "0"
            ids == SelectSeq(fsSplit, LAMBDA line : line[2] = flag)
        IN /\ Len(samples) = Len(ids)
           /\ \A i \in DOMAIN ids :
                samples[i] = JoinPath(image_dir, fsImages[ImagePathOf(ids[i][1])][2])

\* the position of event e in the sequence order
PosIn(order, e) == CHOOSE i \in DOMAIN order : order[i] = e

\* the constructor's events so far follow order, none twice, and a returned
\* constructor has built both the category index and the sample list
ConstructionFollows(order) ==
    /\ \A i, j \in DOMAIN dsTrace :
         i < j => PosIn(order, dsTrace[i]) < PosIn(order, dsTrace[j])
    /\ dsPc = "constructed" =>
         /\ \E i \in DOMAIN dsTrace : dsTrace[i] = "load_categories"
         /\ \E i \in DOMAIN dsTrace : dsTrace[i] = "load_samples"

LaterOps == {"__getitem__", "__len__", "encode_category", "decode_category",
             "get_categories"}

\* a step of one of the later operations fetches, extracts and reads
\* nothing and leaves the sample list and the category index alone
LaterOpsChangeNothing ==
    dsOp' \in LaterOps =>
        UNCHANGED <<fsEntries, fsArchiveGood, fetches, extracts, dsReads, dsTrace,
                    samples, category2index, index2category>>

\* C7 as stated: download, extraction, manifest parse, then category-mapping
\* build, each at most once and all before the constructor returns; later
\* operations change nothing.
C7_ParseBeforeMapping ==
    /\ [](ConstructionFollows(<<"fetch", "extract", "load_samples", "load_categories">>))
    /\ [][LaterOpsChangeNothing]_vars

\* C7 amended: download, extraction, category-mapping build, then manifest
\* parse, each at most once and all before the constructor returns; later
\* operations change nothing.
C7_MappingBeforeParse ==
    /\ [](ConstructionFollows(<<"fetch", "extract", "load_categories", "load_samples">>))
    /\ [][LaterOpsChangeNothing]_vars

\* a constructor that fetched, extracted, built the mapping and parsed the
\* manifest has returned, and a later operation has been called
C7_Witness ==
    /\ dsPc = "constructed"
    /\ dsTrace = <<"fetch", "extract", "load_categories", "load_samples">>
    /\ dsOp = "__getitem__"

\* C8: a download call with overwrite false fetches only when neither the
\* extracted directory nor the archive exists, does nothing when the
\* directory exists, extracts without fetching when only the archive
\* exists, and leaves the directory root/CUB_200_2011 in place whenever it
\* returns; while no call overwrites, the archive is fetched at most once
\* and extracted at most once.
C8_DownloadOnce ==
    /\ (dlLast.made /\ ~dlLast.overwrite) =>
         /\ dlLast.fetched = 1 => (~dlLast.dirBefore /\ ~dlLast.archiveBefore)
         /\ dlLast.dirBefore => (dlLast.fetched = 0 /\ dlLast.extracted = 0)
         /\ (~dlLast.dirBefore /\ dlLast.archiveBefore /\ ~dlLast.raised) =>
                (dlLast.fetched = 0 /\ dlLast.extracted = 1)
         /\ ~dlLast.raised => DatasetDirName \in fsEntries
    /\ ~overwriteUsed => (fetches <= 1 /\ extracts <= 1)

\* two download calls were made on a root that had neither the directory
\* nor the archive: the archive was fetched and extracted once, and the
\* last call found the directory and did nothing
C8_Witness ==
    /\ ~overwriteUsed
    /\ dlCalls = 2
    /\ fetches = 1 /\ extracts = 1
    /\ dlLast.dirBefore /\ dlLast.fetched = 0 /\ ~dlLast.raised

(***************************************************************************)
(* Claims about build_model                                                *)
(***************************************************************************)
\* the positions in bmCalls of the calls of one kind made for a category
CallsOf(kind, category) ==
    { i \in DOMAIN bmCalls : bmCalls[i][1] = kind /\ bmCalls[i][2] = category }

\* the optional component `part` of the returned model follows the rule:
\* absent, with no lookup, exactly when its configured name is empty or
\* None; otherwise built once by the constructor registered under the name
OptionalRule(name, category, part) ==
    LET falsy == name \in {"", None}
    IN /\ falsy => (CallsOf("lookup", category) = {} /\ CallsOf("construct", category) = {})
       /\ bmPc = "done" =>
            /\ (model[part] = NoObject) <=> falsy
            /\ ~falsy =>
                 /\ name \in Registered(category)
                 /\ model[part] = <<"object", category, name>>
                 /\ Cardinality(CallsOf("construct", category)) = 1
                 /\ \A i \in CallsOf("construct", category) : bmCalls[i][3] = name

\* C4: build_model passes encoder=None, and looks no encoder up, exactly
\* when ENCODER.NAME is empty or None; otherwise the encoder passed is the
\* one built by the constructor registered under that name. The same holds
\* for NECKS.NAME and necks. Backbone and head are always looked up and built.
C4_OptionalEncoderNecks ==
    /\ OptionalRule(bmCfg.ENCODER, "encoder", "encoder")
    /\ OptionalRule(bmCfg.NECKS, "neck", "necks")
    /\ bmPc = "done" =>
         /\ model.backbone = <<"object", "backbone", bmCfg.BACKBONE>>
         /\ model.heads = <<"object", "head", bmCfg.HEADS>>
         /\ \E i \in CallsOf("lookup", "backbone") : bmCalls[i][3] = bmCfg.BACKBONE
         /\ \E i \in CallsOf("lookup", "head") : bmCalls[i][3] = bmCfg.HEADS

\* a model was built without an encoder (ENCODER.NAME = "") and with a neck
C4_Witness ==
    /\ bmPc = "done"
    /\ bmCfg.ENCODER = ""
    /\ model.encoder = NoObject
    /\ bmCfg.NECKS = "multi_scale_conv"
    /\ model.necks # NoObject

\* C5: with an unregistered backbone name build_model fails having made no
\* call but the backbone lookup; with an unregistered head name it fails
\* before any criterion or the top-level model is looked up or built; no
\* model is returned and no call follows a failed lookup.
C5_UnregisteredAborts ==
    /\ bmCfg.BACKBONE \notin Registered("backbone") =>
         /\ bmPc # "done" /\ model = NoObject
         /\ bmCalls # <<>> => bmPc = "failed"
         /\ \A i \in DOMAIN bmCalls : bmCalls[i] = <<"lookup", "backbone", bmCfg.BACKBONE>>
    /\ bmCfg.HEADS \notin Registered("head") =>
         /\ bmPc # "done" /\ model = NoObject
         /\ CallsOf("lookup", "head") # {} => bmPc = "failed"
         /\ \A i \in DOMAIN bmCalls : bmCalls[i][2] \notin {"criterion", "model"}
    /\ \A i \in DOMAIN bmCalls :
         (bmCalls[i][1] = "lookup" /\ bmCalls[i][3] \notin Registered(bmCalls[i][2])) =>
            (i = Len(bmCalls) /\ bmPc = "failed" /\ model = NoObject)
    /\ bmPc = "failed" =>
         /\ bmCalls # <<>>
         /\ bmCalls[Len(bmCalls)][1] = "lookup"
         /\ bmCalls[Len(bmCalls)][3] \notin Registered(bmCalls[Len(bmCalls)][2])

\* build_model failed on an unregistered head name, after the backbone was
\* built and with criterions configured
C5_Witness ==
    /\ bmPc = "failed"
    /\ bmCfg.HEADS \notin Registered("head")
    /\ bmCfg.CRITERIONS # <<>>
    /\ CallsOf("construct", "backbone") # {}
    /\ bmCalls[Len(bmCalls)] = <<"lookup", "head", bmCfg.HEADS>>

(***************************************************************************)
(* Claims about save_model                                                 *)
(***************************************************************************)
\* whether event e is among the current call's events
Did(e) == \E i \in DOMAIN svEvents : svEvents[i] = e

\* whether s is an initial part of t
IsPrefix(s, t) == Len(s) <= Len(t) /\ SubSeq(t, 1, Len(s)) = s

\* C6: when NAME is configured, SAVE_DIR is missing and os.mkdir fails, the
\* call logs the failure, then closes the logger, then exits, and does
\* nothing else: no checkpoint is written, 'Saving checkpoint' is not
\* logged, and execution does not continue past the handler.
C6_MkdirFailureTerminates ==
    Did("mkdir_failed") =>
        /\ IsPrefix(svEvents, <<"mkdir_failed", "log_fail", "close", "exit">>)
        /\ svPc \in {"log_fail", "close", "exit", "exited"}
        /\ svPc = "log_fail" <=> svEvents = <<"mkdir_failed">>
        /\ svPc = "exited" <=> Did("exit")
        /\ ~svDirExists
        /\ Did("log_fail") =>
             svLog[Len(svLog)] = <<"Cannot create save dir under", svCfg.SAVE_DIR>>
        /\ svClosed <=> Did("close")
        /\ svExited <=> Did("exit")
        /\ \A i \in DOMAIN svLog : svLog[i][1] # "Saving checkpoint to"
        /\ svCheckpoint = NoObject

\* os.mkdir failed and the process has exited
C6_Witness ==
    /\ svPc = "exited"
    /\ svEvents = <<"mkdir_failed", "log_fail", "close", "exit">>
    /\ svExited

\* C10: with an empty or None WEIGHT.NAME save_model does nothing: no
\* directory is created, nothing is written or logged, the logger stays
\* open and the process goes on. With a NAME, a call that returns has
\* written the checkpoint to SAVE_DIR/NAME, in an existing SAVE_DIR, before
\* logging 'Saving checkpoint'.
C10_SaveFrameAndOrder ==
    /\ svCfg.NAME \in {"", None} =>
         /\ svDirExists = svDirAtStart
         /\ svCheckpoint = NoObject
         /\ svLog = <<>>
         /\ ~svClosed /\ ~svExited
         /\ svPc = "idle" /\ svEvents = <<>>
    /\ (svCfg.NAME \notin {"", None} /\ svCalls > 0 /\ svPc = "idle") =>
         /\ svEvents \in {<<"save", "log_save">>, <<"mkdir", "save", "log_save">>}
         /\ svDirExists
         /\ svCheckpoint[1] = <<svCfg.SAVE_DIR, svCfg.NAME>>
         /\ svLog[Len(svLog)] = <<"Saving checkpoint to", <<svCfg.SAVE_DIR, svCfg.NAME>>>>
    /\ Did("log_save") =>
         \E i, j \in DOMAIN svEvents :
            i < j /\ svEvents[i] = "save" /\ svEvents[j] = "log_save"
    /\ svPc = "log_save" =>
         /\ svCheckpoint = <<<<svCfg.SAVE_DIR, svCfg.NAME>>, svState>>
         /\ svDirExists
         /\ Len(svLog) = svCalls - 1

\* save_model was called with an empty NAME while SAVE_DIR was missing
C10_Witness ==
    /\ svCfg.NAME = ""
    /\ svCalls = 2
    /\ ~svDirAtStart

(***************************************************************************)
(* Claims about vit_update_strategy                                        *)
(***************************************************************************)
\* the weighted sum of the loss terms of the current call
RECURSIVE SumOfTerms(_)
SumOfTerms(idx) ==
    IF idx = {} THEN 0
    ELSE LET i == CHOOSE i \in idx : TRUE
         IN upLosses[i].weight * upLosses[i].value + SumOfTerms(idx \ {i})

\* C9: a call runs forward pass, loss aggregation, backward pass (through
\* the scaled loss exactly when amp is set), gradient clipping, optimizer
\* step and gradient zeroing in this order, each once; when it returns the
\* gradients are zero and the mapping returned holds every loss term's
\* value and, under "iter_loss", the aggregated loss.
C9_UpdateOrder ==
    LET expected == <<"forward", "aggregate",
                      IF upArgs.amp THEN "backward_scaled" ELSE "backward",
                      "clip", "step", "zero_grad">>
    IN /\ IsPrefix(upTrace, expected)
       /\ upPc = "returned" =>
            /\ upTrace = expected
            /\ upGrad = 0
            /\ DOMAIN upResult = { upLosses[i].name : i \in DOMAIN upLosses } \cup {"iter_loss"}
            /\ \A i \in DOMAIN upLosses : upResult[upLosses[i].name] = upLosses[i].value
            /\ upResult["iter_loss"] = SumOfTerms(DOMAIN upLosses)

\* a call with amp set has returned after a step that changed the parameter
C9_Witness ==
    /\ upPc = "returned"
    /\ upArgs.amp
    /\ upWeight < 0
    /\ upGrad = 0
    /\ upResult["iter_loss"] = 2
====
